---- MODULE Spec2Model ----
(***************************************************************************)
(* pw-cli: the client-side registry / proxy / dispatch state machine of    *)
(* src/tools/pw-cli.c.  One event loop runs the handlers; every action     *)
(* below is one handler run to completion (do_input with the command it    *)
(* parsed and its trailing pw_core_sync, or one event callback).           *)
(*                                                                         *)
(* A dereference of freed or mistyped memory is undefined behaviour: it is *)
(* a choice between the process dying (run = "crashed") and the outcomes   *)
(* that leave it alive (the stale value read either way, the stale write   *)
(* lost or landing in the record that now occupies the memory).            *)
(***************************************************************************)
EXTENDS Integers, Sequences, FiniteSets, TLC

\* ------------------------------------------------------------- bounds
MaxVars    == 3     \* handles the Variable table hands out: 0..MaxVars-1
MaxId      == 1     \* service ids announced: 0..MaxId
MaxGlobals == 2     \* struct global records allocated over a run
MaxProxies == 3     \* struct proxy_data records allocated over a run
MaxLines   == 4     \* input lines read over a run
MaxVal     == 2     \* values an info update carries: 1..MaxVal

Handles == 0 .. (MaxVars - 1)
Ids     == 0 .. MaxId

NoRemote == -1      \* data->current == NULL, and "no argument given"
NoGlobal == 0       \* a NULL struct global * / a NULL map item
NoProxy  == 0       \* a NULL struct pw_proxy *

\* the type names bind_global knows, and the ones the service announces here
SupportedTypes == {"Core", "Module", "Device", "Node", "Port", "Factory",
                   "Client", "Link", "Session", "Endpoint", "EndpointStream"}
AnnouncedTypes == {"Node", "Client", "Metadata"}
UB == {"crash", "benign"}

VARIABLES
    run,        \* "init" before main's do_connect, "running", "quit", "crashed"
    vars,       \* data->vars: handle -> what it was allocated to
    remotes,    \* data->remotes, in list order
    current,    \* data->current
    rds,        \* handle -> struct remote_data of the connection made there
    gl,         \* every struct global allocated so far, by allocation number
    px,         \* every struct proxy_data allocated so far, by allocation number
    nlines,     \* input lines read so far
    typing,     \* the user has not stopped sending input
    observed,   \* per connection: ids added and not removed since (history)
    last,       \* what the last handler did and printed
    kind,       \* the type of a session-manager object bound, "" before the bind
    snap,       \* pd->info of that object's proxy
    mrg,        \* the last thing done to snap and the update it was done with
    impl,       \* default-nodes: struct impl, its slots, properties and timer
    session     \* default-nodes: the media session around it and its last event

vs == <<run, vars, remotes, current, rds, gl, px, nlines, typing, observed, last,
       kind, snap, mrg, impl, session>>

\* ------------------------------------------------------------ helpers
Last(q) == q[Len(q)]

Without(q, x) == SelectSeq(q, LAMBDA y : y # x)

\* op: the handler; err: the error it printed, "" when it returned true;
\* prompt: the connection whose prompt it showed; render: the proxy whose
\* snapshot it printed; ub: it went through freed or mistyped memory; req: the
\* requests it sent on objects of the service, binds and barriers apart; list:
\* the Globals it printed one line each for, in the order printed; on: the
\* connection whose core delivered the error event handled; cmd: the command
\* token of a line that holds nothing else, which parse hands to the handler
\* and the handler's usage message begins with; shown: the number printed
\* after "@proxy:" for a created object, -1 when none was printed
NoOut == [op |-> "", err |-> "", prompt |-> NoRemote, render |-> NoProxy,
          ub |-> FALSE, req |-> 0, list |-> <<>>, on |-> NoRemote, cmd |-> "",
          shown |-> -1]

Cur == [run |-> run, vars |-> vars, remotes |-> remotes, current |-> current,
        rds |-> rds, gl |-> gl, px |-> px, last |-> NoOut]

NoRd == [live |-> FALSE, prompt_pending |-> 0, seq |-> 0, inflight |-> <<>>,
         globals |-> <<>>]

\* the handle names a struct remote_data that has not been destroyed
IsRemote(s, h) == h \in Handles /\ s.vars[h] = "remote" /\ s.rds[h].live

Out(s, op, err) == [s EXCEPT !.last.op = op, !.last.err = err]

Crash(s, op) == [s EXCEPT !.run = "crashed", !.last = [NoOut EXCEPT !.op = op,
                                                                     !.ub = TRUE]]

\* ------------------------------------------------------------- pw_map
\* pw_map_insert_new on data->vars: the next handle
NextVar(s) == Cardinality({h \in Handles : s.vars[h] # "none"})

pw_map_insert_new(s, what) == [s EXCEPT !.vars[NextVar(s)] = what]

\* pw_map_lookup on data->vars: NULL for a handle never allocated or removed
vars_lookup(s, h) == IF h \in Handles /\ s.vars[h] \notin {"none", "freed"}
                     THEN h ELSE NoRemote

\* pw_map_lookup on rd->globals
pw_map_lookup(globals, id) ==
    IF id >= 0 /\ id < Len(globals) THEN globals[id + 1] ELSE NoGlobal

\* the while loop of registry_event_global, then pw_map_insert_at
RECURSIVE Backfill(_, _)
Backfill(globals, id) ==
    IF id > Len(globals) THEN Backfill(Append(globals, NoGlobal), id) ELSE globals

pw_map_insert_at(globals, id, g) ==
    IF id = Len(globals) THEN Append(globals, g)
    ELSE IF id < Len(globals) THEN [globals EXCEPT ![id + 1] = g]
    ELSE globals

pw_map_remove(globals, id) == [globals EXCEPT ![id + 1] = NoGlobal]

\* ------------------------------------------------------------ sequencer
\* pw_core_sync(rd->core, 0, 0): a barrier request goes out, its sequence returned
pw_core_sync(r) == [r EXCEPT !.seq = @ + 1, !.inflight = Append(@, r.seq + 1)]

\* on_core_done without the comparison with rd->prompt_pending
on_core_done_any(s, h, seq) ==
    [s EXCEPT !.last.op = "done", !.last.prompt = h]

on_core_done(s, h, seq) ==
    LET t == [s EXCEPT !.last.op = "done"]
    IN  IF seq = s.rds[h].prompt_pending
        THEN [t EXCEPT !.last.prompt = h]
        ELSE t

\* on_core_error quitting the loop whatever the id
on_core_error_always(s, h, id) ==
    [s EXCEPT !.last.op = "error", !.last.on = h, !.run = "quit"]

\* on_core_error: the error is logged; pw_main_loop_quit when it is about
\* the core object, id 0
on_core_error(s, h, id) ==
    LET t == [s EXCEPT !.last.op = "error", !.last.on = h]
    IN  IF id = 0 THEN [t EXCEPT !.run = "quit"] ELSE t

\* do_quit, the handler of SIGINT and SIGTERM
do_quit(s) == [s EXCEPT !.last.op = "signal", !.run = "quit"]

\* ------------------------------------------------------------- connect
\* do_connect taking the number of connections for the handle
do_connect_counted(s, ok) ==
    IF ~ok THEN Out(s, "connect", "failed to connect")
    ELSE LET h == Len(s.remotes)
             r == pw_core_sync([NoRd EXCEPT !.live = TRUE])
         IN  [s EXCEPT
                 !.vars[h] = "remote",
                 !.remotes = Append(@, h),
                 !.current = h,
                 !.rds[h] = [r EXCEPT !.prompt_pending = r.seq],
                 !.last.op = "connect"]

do_connect(s, ok) ==
    IF ~ok THEN Out(s, "connect", "failed to connect")
    ELSE LET h == NextVar(s)
             r == pw_core_sync([NoRd EXCEPT !.live = TRUE])
         IN  [pw_map_insert_new(s, "remote") EXCEPT
                 !.remotes = Append(@, h),
                 !.current = h,
                 !.rds[h] = [r EXCEPT !.prompt_pending = r.seq],
                 !.last.op = "connect"]

\* do_input dropping the sequence pw_core_sync returns
do_input_unrecorded(s, ub) ==
    IF s.run # "running" THEN s
    ELSE IF s.current = NoRemote THEN [s EXCEPT !.run = "quit"]
    ELSE IF ~IsRemote(s, s.current)
         THEN IF ub = "crash" THEN [s EXCEPT !.run = "crashed"]
              ELSE [s EXCEPT !.last.ub = TRUE]
    ELSE [s EXCEPT !.rds[s.current] = pw_core_sync(@)]

\* the tail of do_input, after parse() has run the handler; ub decides what
\* reading rd->core of a current that is no struct remote_data does
do_input(s, ub) ==
    IF s.run # "running" THEN s
    ELSE IF s.current = NoRemote THEN [s EXCEPT !.run = "quit"]
    ELSE IF ~IsRemote(s, s.current)
         THEN IF ub = "crash" THEN Crash(s, s.last.op)
              ELSE [s EXCEPT !.last.ub = TRUE]
    ELSE LET r == pw_core_sync(s.rds[s.current])
         IN  [s EXCEPT !.rds[s.current] = [r EXCEPT !.prompt_pending = r.seq]]

\* ------------------------------------------------- globals and proxies
NewGlobal(h, id, type) ==
    [rd |-> h, id |-> id, type |-> type, proxy |-> NoProxy,
     info_pending |-> FALSE, freed |-> 0]

\* freed memory: of what the record held only the flag a stale read can still
\* see is kept, with the number of records allocated when it was freed
FreedGlobal == [rd |-> NoRemote, id |-> -1, type |-> "", proxy |-> NoProxy,
                info_pending |-> FALSE, freed |-> 1]
FreedProxy  == [rd |-> NoRemote, global |-> NoGlobal, info |-> FALSE, type |-> "",
                adhoc |-> FALSE, live |-> FALSE, oid |-> -1]

LiveGlobal(s, g) == g \in 1 .. Len(s.gl) /\ s.gl[g].freed = 0
LiveProxy(s, p)  == p \in 1 .. Len(s.px) /\ s.px[p].live

\* What a struct global * that outlived its record can reach: -1 the access
\* kills the process, 0 the freed bytes as they were left, a > 0 the record
\* allocated into the same memory after the free.
StaleOutcomes(s, g) ==
    {-1, 0} \cup {a \in 1 .. Len(s.gl) : s.gl[a].freed = 0 /\ a >= s.gl[g].freed}

\* the record an access through pointer g touches, w being the outcome above
Deref(s, g, w) == IF LiveGlobal(s, g) \/ w <= 0 THEN g ELSE w

Dangling(s, g) == g # NoGlobal /\ ~LiveGlobal(s, g)

bind_global(s, h, g) ==
    IF s.gl[g].type \notin SupportedTypes
    THEN [s EXCEPT !.last.err = "unsupported type"]
    ELSE LET p == Len(s.px) + 1
         IN  [s EXCEPT
                 !.px = Append(@, [rd |-> h, global |-> g, info |-> FALSE,
                                   type |-> s.gl[g].type, adhoc |-> FALSE,
                                   live |-> TRUE, oid |-> s.gl[g].id]),
                 !.gl[g].proxy = p]

\* registry_event_global without the while loop that fills the slots below id
registry_event_global_no_backfill(s, h, id, type) ==
    LET g == Len(s.gl) + 1
        t == [s EXCEPT
                 !.gl = Append(@, NewGlobal(h, id, type)),
                 !.rds[h].globals = pw_map_insert_at(@, id, g),
                 !.last.op = "global"]
    IN  bind_global(t, h, g)

registry_event_global(s, h, id, type) ==
    LET g == Len(s.gl) + 1
        t == [s EXCEPT
                 !.gl = Append(@, NewGlobal(h, id, type)),
                 !.rds[h].globals = pw_map_insert_at(Backfill(@, id), id, g),
                 !.last.op = "global"]
    IN  bind_global(t, h, g)

\* destroy_global without pw_map_remove
destroy_global_keeps_item(s, g) ==
    IF g = NoGlobal THEN s
    ELSE [s EXCEPT !.gl[g].freed = Len(s.gl) + 1]

destroy_global(s, g) ==
    IF g = NoGlobal THEN s
    ELSE [s EXCEPT
             !.rds[s.gl[g].rd].globals = pw_map_remove(@, s.gl[g].id),
             !.gl[g] = [FreedGlobal EXCEPT !.info_pending = s.gl[g].info_pending,
                                           !.freed = Len(s.gl) + 1]]

\* registry_event_global_remove without the test of what pw_map_lookup found
registry_event_global_remove_unchecked(s, h, id) ==
    destroy_global([s EXCEPT !.last.op = "global_remove"],
                   pw_map_lookup(s.rds[h].globals, id))

registry_event_global_remove(s, h, id) ==
    LET g == pw_map_lookup(s.rds[h].globals, id)
        t == [s EXCEPT !.last.op = "global_remove"]
    IN  IF g = NoGlobal
        THEN [t EXCEPT !.last.err = "unknown global"]
        ELSE destroy_global(t, g)

\* core_event_info .. endpoint_stream_event_info: the snapshot is merged, the
\* back-reference taken from the registry when absent, the first info rendered
event_info(s, p, id, w) ==
    LET pd == s.px[p]
        g  == IF pd.global = NoGlobal
              THEN pw_map_lookup(s.rds[pd.rd].globals, id) ELSE pd.global
        t  == [s EXCEPT !.px[p].info = TRUE, !.px[p].oid = id,
                        !.px[p].global = g,
                        !.last.op = "event_info", !.last.ub = Dangling(s, g)]
    IN  IF g = NoGlobal THEN t
        ELSE IF Dangling(s, g) /\ w = -1 THEN Crash(s, "event_info")
        ELSE IF s.gl[Deref(s, g, w)].info_pending
             THEN [t EXCEPT !.gl[Deref(s, g, w)].info_pending = FALSE,
                            !.last.render = p]
             ELSE t

destroy_proxy(s, p, w) ==
    LET pd == s.px[p]
    IN  IF ~pd.info THEN s
        ELSE IF Dangling(s, pd.global) /\ w = -1 THEN Crash(s, "destroy_proxy")
        ELSE IF pd.global # NoGlobal
             THEN [s EXCEPT !.gl[Deref(s, pd.global, w)].proxy = NoProxy,
                            !.px[p].info = FALSE,
                            !.last.ub = @ \/ Dangling(s, pd.global)]
             ELSE [s EXCEPT !.px[p].info = FALSE]

\* the proxy's destroy event, after which the library frees the proxy
proxy_destroy(s, p, w) ==
    LET t == destroy_proxy(s, p, w)
    IN  IF t.run = "crashed" THEN t ELSE [t EXCEPT !.px[p] = FreedProxy]

\* --------------------------------------------------- connection set
on_core_destroy(s, h) ==
    LET RECURSIVE Each(_, _)
        Each(t, i) ==
            IF i > Len(s.rds[h].globals) THEN t
            ELSE Each(destroy_global(t, s.rds[h].globals[i]), i + 1)
        t1 == Each([s EXCEPT !.remotes = Without(@, h), !.vars[h] = "freed"], 1)
    IN  [t1 EXCEPT !.current = IF @ = h THEN NoRemote ELSE @,
                   !.rds[h].live = FALSE]

\* pw_core_disconnect: the connection's proxies get their destroy event, then
\* the core proxy its own
pw_core_disconnect(s, h, w) ==
    LET RECURSIVE Each(_, _)
        Each(t, p) ==
            IF p > Len(s.px) \/ t.run = "crashed" THEN t
            ELSE IF s.px[p].live /\ s.px[p].rd = h
                 THEN Each(proxy_destroy(t, p,
                             IF Dangling(t, t.px[p].global)
                                /\ w \in StaleOutcomes(t, t.px[p].global)
                             THEN w ELSE 0), p + 1)
                 ELSE Each(t, p + 1)
        t1 == Each(s, 1)
    IN  IF t1.run = "crashed" THEN t1 ELSE on_core_destroy(t1, h)

\* a handler reached through a data->current that is NULL or no connection
BadCurrent(s, op, ub) ==
    IF s.current = NoRemote \/ ub = "crash" THEN Crash(s, op)
    ELSE [Out(s, op, "") EXCEPT !.last.ub = TRUE]

do_disconnect(s, arg, w, ub) ==
    LET rd == IF arg = NoRemote THEN s.current ELSE vars_lookup(s, arg)
        t0 == [s EXCEPT !.last.op = "disconnect"]
    IN  IF arg # NoRemote /\ rd = NoRemote
        THEN Out(t0, "disconnect", "Remote does not exist")
        ELSE IF ~IsRemote(s, rd) THEN BadCurrent(t0, "disconnect", ub)
        ELSE LET t == pw_core_disconnect(t0, rd, w)
             IN  IF t.run = "crashed" THEN t
                 ELSE IF t.current = NoRemote /\ t.remotes # <<>>
                      THEN [t EXCEPT !.current = Last(t.remotes)]
                      ELSE t

\* do_switch_remote without spa_list_remove and spa_list_append
do_switch_remote_in_place(s, arg, ub) ==
    LET idx == IF arg = NoRemote THEN 0 ELSE arg
        rd  == vars_lookup(s, idx)
        t0  == [s EXCEPT !.last.op = "switch-remote"]
    IN  IF rd = NoRemote
        THEN Out(t0, "switch-remote", "Remote does not exist")
        ELSE IF ~IsRemote(s, rd) /\ ub = "crash" THEN Crash(t0, "switch-remote")
        ELSE [t0 EXCEPT !.current = rd, !.last.ub = ~IsRemote(s, rd)]

do_switch_remote(s, arg, ub) ==
    LET idx == IF arg = NoRemote THEN 0 ELSE arg
        rd  == vars_lookup(s, idx)
        t0  == [s EXCEPT !.last.op = "switch-remote"]
    IN  IF rd = NoRemote
        THEN Out(t0, "switch-remote", "Remote does not exist")
        ELSE IF ~IsRemote(s, rd) /\ ub = "crash" THEN Crash(t0, "switch-remote")
        ELSE [t0 EXCEPT !.remotes = Append(Without(@, rd), rd),
                        !.current = rd,
                        !.last.ub = ~IsRemote(s, rd)]

\* a mandatory argument is missing: n below what the handler wants after
\* pw_split_ip
NoArg == -3

do_load_module(s, arg, ok) ==
    IF arg = NoArg THEN Out(s, "load-module", "usage")
    ELSE IF ~ok THEN Out(s, "load-module", "Could not load module")
    ELSE [pw_map_insert_new(s, "module") EXCEPT
             !.last.op = "load-module"]

\* pw_proxy_get_id: the id of a proxy in the object map of its connection's
\* client side, where the core, the client and the registry come first
pw_proxy_get_id(s, p) ==
    2 + Cardinality({q \in 1 .. p : s.px[q].rd = s.px[p].rd})

\* do_create_device, do_create_node, do_create_link: a proxy made outside the
\* registry, with no back-reference and no info_func
create_object(s, op, type, arg, ub) ==
    IF arg = NoArg THEN Out(s, op, "usage")
    ELSE IF ~IsRemote(s, s.current) THEN BadCurrent(s, op, ub)
    ELSE LET t == [pw_map_insert_new(s, "proxy") EXCEPT
                      !.px = Append(@, [rd |-> s.current, global |-> NoGlobal,
                                        info |-> FALSE, type |-> type,
                                        adhoc |-> TRUE, live |-> TRUE,
                                        oid |-> -1]),
                      !.last.op = op, !.last.req = @ + 1]
         IN  [t EXCEPT !.last.shown = pw_proxy_get_id(t, Len(t.px))]

do_create_device(s, arg, ub) == create_object(s, "create-device", "Device", arg, ub)
do_create_node(s, arg, ub)   == create_object(s, "create-node", "Node", arg, ub)
do_create_link(s, arg, ub)   == create_object(s, "create-link", "Link", arg, ub)

\* ------------------------------------------------ commands on globals
\* do_global_info raising info_pending before it knows the bind succeeded
do_global_info_flag_first(s, g, ub) ==
    IF s.gl[g].proxy = NoProxy
    THEN bind_global([s EXCEPT !.gl[g].info_pending = TRUE], s.gl[g].rd, g)
    ELSE IF ~s.px[s.gl[g].proxy].info THEN Crash(s, "info")
    ELSE [s EXCEPT !.last.render = s.gl[g].proxy]

do_global_info(s, g, ub) ==
    LET p == s.gl[g].proxy
    IN  IF p = NoProxy
        THEN LET t == bind_global(s, s.gl[g].rd, g)
             IN  IF t.last.err # "" THEN t
                 ELSE [t EXCEPT !.gl[g].info_pending = TRUE]
        ELSE IF ~LiveProxy(s, p)
             THEN IF ub = "crash" THEN Crash(s, "info")
                  ELSE [s EXCEPT !.last.ub = TRUE]
        ELSE IF s.px[p].adhoc THEN s
        ELSE IF ~s.px[p].info THEN Crash(s, "info")
        ELSE [s EXCEPT !.last.render = p]

All == -2

do_info(s, arg, ub) ==
    LET t0 == [s EXCEPT !.last.op = "info"]
    IN  IF arg = NoArg THEN Out(t0, "info", "usage")
        ELSE IF ~IsRemote(s, s.current) THEN BadCurrent(t0, "info", ub)
        ELSE IF arg = All
        THEN LET globals == s.rds[s.current].globals
                 RECURSIVE Each(_, _)
                 Each(t, i) ==
                     IF i > Len(globals) \/ t.run = "crashed" THEN t
                     ELSE IF globals[i] = NoGlobal THEN Each(t, i + 1)
                     ELSE Each(do_global_info(t, globals[i], ub), i + 1)
                 t1 == Each(t0, 1)
             IN  IF t1.run = "crashed" THEN t1
                 ELSE [t1 EXCEPT !.last.err = ""]
        ELSE LET g == pw_map_lookup(s.rds[s.current].globals, arg)
             IN  IF g = NoGlobal THEN Out(t0, "info", "unknown global")
                 ELSE do_global_info(t0, g, ub)

\* a request sent on global->proxy
proxy_request(s, op, g, ub) ==
    IF ~LiveProxy(s, s.gl[g].proxy)
    THEN IF ub = "crash" THEN Crash(s, op)
         ELSE [s EXCEPT !.last.ub = TRUE, !.last.req = @ + 1]
    ELSE [s EXCEPT !.last.req = @ + 1]

do_enum_params(s, id, ub) ==
    LET t0 == [s EXCEPT !.last.op = "enum-params"]
    IN  IF id = NoArg THEN Out(t0, "enum-params", "usage")
        ELSE IF ~IsRemote(s, s.current) THEN BadCurrent(t0, "enum-params", ub)
        ELSE LET g == pw_map_lookup(s.rds[s.current].globals, id)
                 t == IF g # NoGlobal /\ s.gl[g].proxy = NoProxy
                      THEN bind_global(t0, s.current, g) ELSE t0
             IN  IF g = NoGlobal
                 THEN Out(t0, "enum-params", "unknown global")
                 ELSE IF t.last.err # "" THEN t
                 ELSE IF s.gl[g].type \in {"Node", "Port", "Device", "Endpoint"}
                      THEN proxy_request(t, "enum-params", g, ub)
                      ELSE Out(t, "enum-params", "not implemented")

client_request(s, op, id, ub) ==
    LET t0 == [s EXCEPT !.last.op = op]
    IN  IF id = NoArg THEN Out(t0, op, "usage")
        ELSE IF ~IsRemote(s, s.current) THEN BadCurrent(t0, op, ub)
        ELSE LET g == pw_map_lookup(s.rds[s.current].globals, id)
                 t == IF g # NoGlobal /\ s.gl[g].proxy = NoProxy
                      THEN bind_global(t0, s.current, g) ELSE t0
             IN  IF g = NoGlobal THEN Out(t0, op, "unknown global")
                 ELSE IF s.gl[g].type # "Client"
                      THEN Out(t0, op, "not a client")
                 ELSE IF t.last.err # "" THEN t
                 ELSE proxy_request(t, op, g, ub)

do_permissions(s, id, ub)     == client_request(s, "permissions", id, ub)
do_get_permissions(s, id, ub) == client_request(s, "get-permissions", id, ub)

\* do_destroy asking the service to destroy whatever id it is given
do_destroy_unchecked(s, id, ub) ==
    IF id = NoArg THEN Out(s, "destroy", "usage")
    ELSE IF ~IsRemote(s, s.current) THEN BadCurrent(s, "destroy", ub)
    ELSE [s EXCEPT !.last.op = "destroy", !.last.req = @ + 1]

\* do_destroy naming itself in the usage message instead of echoing cmd
do_destroy_named(s, id, ub) ==
    LET t0 == [s EXCEPT !.last.op = "destroy"]
    IN  IF id = NoArg THEN [Out(t0, "destroy", "usage") EXCEPT !.last.cmd = "destroy"]
        ELSE IF ~IsRemote(s, s.current) THEN BadCurrent(t0, "destroy", ub)
        ELSE IF pw_map_lookup(s.rds[s.current].globals, id) = NoGlobal
             THEN Out(t0, "destroy", "unknown global")
        ELSE [t0 EXCEPT !.last.req = @ + 1]

\* do_destroy: pw_registry_destroy on the id of a Global of the registry
do_destroy(s, id, ub) ==
    LET t0 == [s EXCEPT !.last.op = "destroy"]
    IN  IF id = NoArg THEN Out(t0, "destroy", "usage")
        ELSE IF ~IsRemote(s, s.current) THEN BadCurrent(t0, "destroy", ub)
        ELSE IF pw_map_lookup(s.rds[s.current].globals, id) = NoGlobal
             THEN Out(t0, "destroy", "unknown global")
        ELSE [t0 EXCEPT !.last.req = @ + 1]

\* do_export_node: what is the type of the object pw_context_find_global
\* finds under the id in the local context, "none" when it finds nothing; arg
\* the remote-var, NoRemote when it is not given
do_export_node(s, id, what, arg, ub) ==
    LET rd == IF arg = NoRemote THEN s.current ELSE vars_lookup(s, arg)
        t0 == [s EXCEPT !.last.op = "export-node"]
    IN  IF id = NoArg THEN Out(t0, "export-node", "usage")
        ELSE IF arg # NoRemote /\ rd = NoRemote
             THEN Out(t0, "export-node", "Remote does not exist")
        ELSE IF what = "none" THEN Out(t0, "export-node", "does not exist")
        ELSE IF what # "Node" THEN Out(t0, "export-node", "not a node")
        ELSE IF ~IsRemote(s, rd) THEN BadCurrent(t0, "export-node", ub)
        ELSE [pw_map_insert_new(t0, "proxy") EXCEPT !.last.req = @ + 1]

\* print_global under pw_map_for_each: an item that holds NULL prints nothing,
\* nor does a Global whose type does not contain the filter; "" is no filter,
\* and no type name of AnnouncedTypes is part of another
RECURSIVE print_globals(_, _, _, _)
print_globals(s, globals, filter, i) ==
    IF i > Len(globals) THEN <<>>
    ELSE LET g == globals[i]
         IN  IF g = NoGlobal \/ (filter # "" /\ s.gl[g].type # filter)
             THEN print_globals(s, globals, filter, i + 1)
             ELSE <<g>> \o print_globals(s, globals, filter, i + 1)

do_list_objects(s, filter, ub) ==
    LET t0 == [s EXCEPT !.last.op = "list-objects"]
    IN  IF ~IsRemote(s, s.current) THEN BadCurrent(t0, "list-objects", ub)
        ELSE [t0 EXCEPT !.last.list =
                 print_globals(s, s.rds[s.current].globals, filter, 1)]

\* command_list: the commands whose handlers want arguments, by name and alias
command_list ==
    {[name |-> "load-module", alias |-> "lm"],
     [name |-> "info", alias |-> "i"],
     [name |-> "create-device", alias |-> "cd"],
     [name |-> "create-node", alias |-> "cn"],
     [name |-> "destroy", alias |-> "d"],
     [name |-> "create-link", alias |-> "cl"],
     [name |-> "export-node", alias |-> "en"],
     [name |-> "enum-params", alias |-> "e"],
     [name |-> "permissions", alias |-> "sp"],
     [name |-> "get-permissions", alias |-> "gp"]}

\* what can be typed for them, and something that is no command
Tokens == {c.name : c \in command_list} \cup {c.alias : c \in command_list}
              \cup {"nop"}

\* parse on a line that holds the token cmd and too few arguments after it for
\* the handler: the first entry whose name or alias is cmd gets cmd and args
parse(s, cmd, ub) ==
    LET found == {c \in command_list : c.name = cmd \/ c.alias = cmd}
        name  == IF found = {} THEN "" ELSE (CHOOSE c \in found : TRUE).name
        t     == [s EXCEPT !.last.cmd = cmd]
    IN  CASE name = "load-module"     -> do_load_module(t, NoArg, TRUE)
          [] name = "info"            -> do_info(t, NoArg, ub)
          [] name = "create-device"   -> do_create_device(t, NoArg, ub)
          [] name = "create-node"     -> do_create_node(t, NoArg, ub)
          [] name = "destroy"         -> do_destroy(t, NoArg, ub)
          [] name = "create-link"     -> do_create_link(t, NoArg, ub)
          [] name = "export-node"     -> do_export_node(t, NoArg, "none", NoRemote, ub)
          [] name = "enum-params"     -> do_enum_params(t, NoArg, ub)
          [] name = "permissions"     -> do_permissions(t, NoArg, ub)
          [] name = "get-permissions" -> do_get_permissions(t, NoArg, ub)
          [] OTHER -> Out(t, "other", "does not exist")

\* help, list-remotes, unload-module, an empty line, an unknown command
do_nothing(s, ok) == Out(s, "other", IF ok THEN "" ELSE "does not exist")

\* ------------------------------------------------------ info snapshots
\* The snapshots of the session-manager kinds.  A change mask is the set of
\* the numbers of its bits; the bits of each kind are those of
\* extensions/session-manager/introspect.h.
PW_SESSION_CHANGE_MASK_PROPS  == 0
PW_SESSION_CHANGE_MASK_PARAMS == 1

PW_ENDPOINT_CHANGE_MASK_STREAMS == 0
PW_ENDPOINT_CHANGE_MASK_SESSION == 1
PW_ENDPOINT_CHANGE_MASK_PROPS   == 2
PW_ENDPOINT_CHANGE_MASK_PARAMS  == 3

PW_ENDPOINT_STREAM_CHANGE_MASK_LINK_PARAMS == 0
PW_ENDPOINT_STREAM_CHANGE_MASK_PROPS       == 1
PW_ENDPOINT_STREAM_CHANGE_MASK_PARAMS      == 2

Kinds == {"Session", "Endpoint", "EndpointStream"}
Vals  == 1 .. MaxVal

\* the bits an update of a kind can carry (PW_*_CHANGE_MASK_ALL)
KindBits(k) ==
    IF k = "Session"
    THEN {PW_SESSION_CHANGE_MASK_PROPS, PW_SESSION_CHANGE_MASK_PARAMS}
    ELSE IF k = "Endpoint"
    THEN {PW_ENDPOINT_CHANGE_MASK_STREAMS, PW_ENDPOINT_CHANGE_MASK_SESSION,
          PW_ENDPOINT_CHANGE_MASK_PROPS, PW_ENDPOINT_CHANGE_MASK_PARAMS}
    ELSE {PW_ENDPOINT_STREAM_CHANGE_MASK_LINK_PARAMS,
          PW_ENDPOINT_STREAM_CHANGE_MASK_PROPS,
          PW_ENDPOINT_STREAM_CHANGE_MASK_PARAMS}

\* pd->info == NULL, and what calloc makes of a snapshot: fixed stands for the
\* fields copied once (name, media_class, direction, flags, endpoint_id),
\* props = 0 for a NULL dictionary
NoInfo == [set |-> FALSE, id |-> 0, fixed |-> 0, n_streams |-> 0,
           session_id |-> 0, n_params |-> 0, params |-> <<>>, props |-> 0,
           change_mask |-> {}]

\* the update the service sends: every field it carries holds v, the
\* parameter list v entries
Update(m, v) == [change_mask |-> m, id |-> v, fixed |-> v, n_streams |-> v,
                 session_id |-> v, n_params |-> v,
                 params |-> [i \in 1 .. v |-> v], props |-> v]

NoUpdate == [change_mask |-> {}, id |-> 0, fixed |-> 0, n_streams |-> 0,
             session_id |-> 0, n_params |-> 0, params |-> <<>>, props |-> 0]

\* the merge of session_event_info
session_event_info(info, update) ==
    LET i0 == IF ~info.set
              THEN [NoInfo EXCEPT !.set = TRUE, !.id = update.id]
              ELSE info
        i1 == IF PW_ENDPOINT_CHANGE_MASK_PARAMS \in update.change_mask
              THEN [i0 EXCEPT !.n_params = update.n_params,
                              !.params = update.params]
              ELSE i0
    IN  IF PW_ENDPOINT_CHANGE_MASK_PROPS \in update.change_mask
        THEN [i1 EXCEPT !.props = update.props]
        ELSE i1

\* endpoint_event_info whose parameter list grows with every update
endpoint_event_info_append(info, update) ==
    LET i0 == IF ~info.set
              THEN [NoInfo EXCEPT !.set = TRUE, !.id = update.id,
                                  !.fixed = update.fixed]
              ELSE info
    IN  IF PW_ENDPOINT_CHANGE_MASK_PARAMS \in update.change_mask
        THEN [i0 EXCEPT !.n_params = @ + update.n_params,
                        !.params = @ \o update.params]
        ELSE i0

\* endpoint_event_info copying id, name, media_class, direction and flags
\* from every update
endpoint_event_info_recopy(info, update) ==
    LET i0 == IF ~info.set
              THEN [NoInfo EXCEPT !.set = TRUE, !.id = update.id,
                                  !.fixed = update.fixed]
              ELSE [info EXCEPT !.id = update.id, !.fixed = update.fixed]
        i1 == IF PW_ENDPOINT_CHANGE_MASK_STREAMS \in update.change_mask
              THEN [i0 EXCEPT !.n_streams = update.n_streams] ELSE i0
        i2 == IF PW_ENDPOINT_CHANGE_MASK_SESSION \in update.change_mask
              THEN [i1 EXCEPT !.session_id = update.session_id] ELSE i1
        i3 == IF PW_ENDPOINT_CHANGE_MASK_PARAMS \in update.change_mask
              THEN [i2 EXCEPT !.n_params = update.n_params,
                              !.params = update.params]
              ELSE i2
    IN  IF PW_ENDPOINT_CHANGE_MASK_PROPS \in update.change_mask
        THEN [i3 EXCEPT !.props = update.props]
        ELSE i3

\* the merge of endpoint_event_info
endpoint_event_info(info, update) ==
    LET i0 == IF ~info.set
              THEN [NoInfo EXCEPT !.set = TRUE, !.id = update.id,
                                  !.fixed = update.fixed]
              ELSE info
        i1 == IF PW_ENDPOINT_CHANGE_MASK_STREAMS \in update.change_mask
              THEN [i0 EXCEPT !.n_streams = update.n_streams] ELSE i0
        i2 == IF PW_ENDPOINT_CHANGE_MASK_SESSION \in update.change_mask
              THEN [i1 EXCEPT !.session_id = update.session_id] ELSE i1
        i3 == IF PW_ENDPOINT_CHANGE_MASK_PARAMS \in update.change_mask
              THEN [i2 EXCEPT !.n_params = update.n_params,
                              !.params = update.params]
              ELSE i2
    IN  IF PW_ENDPOINT_CHANGE_MASK_PROPS \in update.change_mask
        THEN [i3 EXCEPT !.props = update.props]
        ELSE i3

\* the merge of endpoint_stream_event_info
endpoint_stream_event_info(info, update) ==
    LET i0 == IF ~info.set
              THEN [NoInfo EXCEPT !.set = TRUE, !.id = update.id,
                                  !.fixed = update.fixed]
              ELSE info
        i1 == IF PW_ENDPOINT_STREAM_CHANGE_MASK_PARAMS \in update.change_mask
              THEN [i0 EXCEPT !.n_params = update.n_params,
                              !.params = update.params]
              ELSE i0
    IN  IF PW_ENDPOINT_STREAM_CHANGE_MASK_PROPS \in update.change_mask
        THEN [i1 EXCEPT !.props = update.props]
        ELSE i1

\* the .info member of the events bind_global picked for the type
merge(k, info, update) ==
    IF k = "Session" THEN session_event_info(info, update)
    ELSE IF k = "Endpoint" THEN endpoint_event_info(info, update)
    ELSE endpoint_stream_event_info(info, update)

\* info_session, info_endpoint, info_endpoint_stream: what they leave behind
info_func(info) == [info EXCEPT !.change_mask = {}]

\* ------------------------------------------------ default-nodes.c
\* Text is a sequence of characters, the NULL char * the empty one; keys are
\* strings, the NULL key the empty one.
MaxNode == 2
ObjIds  == 1 .. MaxNode

PW_ID_CORE     == 0
SPA_ID_INVALID == -1      \* ((uint32_t)-1), which no id or atoi result here equals
NULL  == <<>>
NoKey == ""

DEFAULT_CONFIG_AUDIO_SINK_KEY   == "default.configured.audio.sink"
DEFAULT_CONFIG_AUDIO_SOURCE_KEY == "default.configured.audio.source"
DEFAULT_CONFIG_VIDEO_SOURCE_KEY == "default.configured.video.source"
OtherKey == "default.other"

\* impl->defaults as sm_default_nodes_start fills it, without the end marker
NoDefaults ==
    <<[key |-> DEFAULT_CONFIG_AUDIO_SINK_KEY, value |-> SPA_ID_INVALID],
      [key |-> DEFAULT_CONFIG_AUDIO_SOURCE_KEY, value |-> SPA_ID_INVALID],
      [key |-> DEFAULT_CONFIG_VIDEO_SOURCE_KEY, value |-> SPA_ID_INVALID]>>
DefaultKeys == {NoDefaults[i].key : i \in 1 .. Len(NoDefaults)}

\* the keys a properties dict holds here, in dict order
PropKeys == <<DEFAULT_CONFIG_AUDIO_SINK_KEY, DEFAULT_CONFIG_AUDIO_SOURCE_KEY,
              DEFAULT_CONFIG_VIDEO_SOURCE_KEY, OtherKey>>
NoProps  == [k \in DefaultKeys \cup {OtherKey} |-> NULL]

NoObject == [type |-> "", name |-> NULL]
\* the objects of a session: Nodes with a plain name and with one that has a
\* double quote in it, and something that is no Node
Objects  == [type : {"Node"}, name : {<<"a">>, <<"a", "\"", "b">>}]
                \cup {[type |-> "Device", name |-> <<"a">>]}

\* "%u" and atoi on the texts that occur: all of them stay far below 2^31,
\* where (uint32_t) changes nothing
Digit == <<"0", "1", "2", "3", "4", "5", "6", "7", "8", "9">>

RECURSIVE snprintf_u(_)
snprintf_u(id) ==
    IF id < 10 THEN <<Digit[id + 1]>>
    ELSE Append(snprintf_u(id \div 10), Digit[(id % 10) + 1])

atoi(text) ==
    LET RECURSIVE from(_, _)
        from(i, acc) ==
            IF i > Len(text) \/ \A d \in 1 .. 10 : Digit[d] # text[i] THEN acc
            ELSE from(i + 1, acc * 10
                             + (CHOOSE d \in 1 .. 10 : Digit[d] = text[i]) - 1)
    IN  from(1, 0)

\* the values a metadata client sets: an object id, something that is no
\* number, or NULL to clear
Values == {snprintf_u(id) : id \in ObjIds} \cup {<<"x">>, NULL}

\* the format of line 181, { "name": "%s" }, with the C library's "%s" of NULL
setf_name(name) ==
    <<"{", " ", "\"", "n", "a", "m", "e", "\"", ":", " ", "\"">>
        \o (IF name = NULL THEN <<"(", "n", "u", "l", "l", ")">> ELSE name)
        \o <<"\"", " ", "}">>

\* spa_json: whitespace and separators are skipped, a string runs to the next
\* double quote, a bare token to the next separator or closing bracket
spa_json_next(text, i) ==
    LET RECURSIVE SkipSep(_)
        SkipSep(j) ==
            IF j > Len(text) \/ text[j] \notin {" ", ":", ",", "="} THEN j
            ELSE SkipSep(j + 1)
        k == SkipSep(i)
        RECURSIVE ScanString(_)
        ScanString(j) ==
            IF j > Len(text) THEN 0
            ELSE IF text[j] = "\"" THEN j ELSE ScanString(j + 1)
        RECURSIVE ScanBare(_)
        ScanBare(j) ==
            IF j > Len(text) \/ text[j] \in {" ", ":", ",", "=", "}", "]"} THEN j
            ELSE ScanBare(j + 1)
    IN  IF k > Len(text) THEN [res |-> 0, val |-> NULL, next |-> k]
        ELSE IF text[k] \in {"}", "]"} THEN [res |-> 0, val |-> NULL, next |-> k + 1]
        ELSE IF text[k] = "\""
        THEN LET e == ScanString(k + 1)
             IN  IF e = 0 THEN [res |-> -1, val |-> NULL, next |-> Len(text) + 1]
                 ELSE [res |-> 1, val |-> SubSeq(text, k + 1, e - 1), next |-> e + 1]
        ELSE LET e == ScanBare(k + 1)
             IN  [res |-> 1, val |-> SubSeq(text, k, e - 1), next |-> e]

\* the position after the opening brace, 0 when the text is no object
spa_json_enter_object(text) ==
    LET RECURSIVE SkipSep(_)
        SkipSep(j) ==
            IF j > Len(text) \/ text[j] \notin {" ", ":", ",", "="} THEN j
            ELSE SkipSep(j + 1)
        k == SkipSep(1)
    IN  IF k <= Len(text) /\ text[k] = "{" THEN k + 1 ELSE 0

\* the while loop of session_create, lines 210-218, spa_json_get_string being
\* spa_json_next with the token copied out: the name the entry holds
RECURSIVE entry_name(_, _, _)
entry_name(text, i, name) ==
    LET key == spa_json_next(text, i)
    IN  IF key.res <= 0 THEN name
        ELSE IF key.val = <<"n", "a", "m", "e">>
        THEN LET v == spa_json_next(text, key.next)
             IN  IF v.res <= 0 THEN entry_name(text, v.next, name)
                 ELSE entry_name(text, v.next, v.val)
        ELSE LET v == spa_json_next(text, key.next)
             IN  IF v.res <= 0 THEN name
                 ELSE entry_name(text, v.next, name)

NoImpl == [live |-> FALSE, defaults |-> NoDefaults, properties |-> NoProps,
           idle_timeout |-> FALSE]
NoSession == [objects |-> [id \in ObjIds |-> NoObject],
              metadata |-> [k \in DefaultKeys |-> NULL],
              state |-> NoProps, timers |-> 0, op |-> "", nset |-> 0,
              saved |-> FALSE, armed |-> FALSE]

find_name(name, object) ==
    object.type = "Node" /\ object.name # NULL /\ object.name = name

find_name_for_id(s, id) ==
    IF id = SPA_ID_INVALID THEN NULL
    ELSE IF id \notin ObjIds \/ s.session.objects[id] = NoObject THEN NULL
    ELSE IF s.session.objects[id].type = "Node" THEN s.session.objects[id].name
    ELSE NULL

\* the state file written with the properties as they are
sm_media_session_save_state(s) ==
    [s EXCEPT !.session.state = s.impl.properties, !.session.saved = TRUE]

remove_idle_timeout(s) ==
    IF s.impl.idle_timeout
    THEN [sm_media_session_save_state(s) EXCEPT
             !.session.timers = @ - 1, !.impl.idle_timeout = FALSE]
    ELSE s

idle_timeout(s) == remove_idle_timeout(s)

\* add_idle_timeout making a new timer every time
add_idle_timeout_anew(s) ==
    [s EXCEPT !.session.timers = @ + 1, !.impl.idle_timeout = TRUE,
              !.session.armed = TRUE]

add_idle_timeout(s) ==
    LET t == IF ~s.impl.idle_timeout
             THEN [s EXCEPT !.session.timers = @ + 1, !.impl.idle_timeout = TRUE]
             ELSE s
    IN  [t EXCEPT !.session.armed = TRUE]

metadata_property(s, subject, key, value) ==
    LET val == IF key # NoKey /\ value # NULL THEN atoi(value) ELSE SPA_ID_INVALID
        \* the loop of lines 169-174 from slot i on: the slots, and changed
        \* as the last matching slot left it
        RECURSIVE each(_, _, _)
        each(defaults, i, changed) ==
            IF i > Len(defaults) THEN [defaults |-> defaults, changed |-> changed]
            ELSE IF key = NoKey \/ key = defaults[i].key
            THEN each([defaults EXCEPT ![i].value = val], i + 1,
                      defaults[i].value # val)
            ELSE each(defaults, i + 1, changed)
        r   == IF subject = PW_ID_CORE
               THEN each(s.impl.defaults, 1, FALSE)
               ELSE [defaults |-> s.impl.defaults, changed |-> FALSE]
        t   == [s EXCEPT !.impl.defaults = r.defaults]
    IN  IF r.changed
        THEN LET name == find_name_for_id(t, val)
             IN  add_idle_timeout(
                     IF key = NoKey
                     THEN [t EXCEPT !.impl.properties = NoProps]
                     ELSE [t EXCEPT !.impl.properties[key] = setf_name(name)])
        ELSE t

\* the session's metadata, of which the default keys of the core subject are
\* kept here: the property is stored, or all of the subject's dropped for the
\* NULL key, and the listeners are told
metadata_set(s, subject, key, value) ==
    LET t == IF subject # PW_ID_CORE THEN s
             ELSE IF key = NoKey
             THEN [s EXCEPT !.session.metadata = [k \in DefaultKeys |-> NULL]]
             ELSE IF key \in DefaultKeys
             THEN [s EXCEPT !.session.metadata[key] = value]
             ELSE s
    IN  IF s.impl.live THEN metadata_property(t, subject, key, value) ELSE t

pw_metadata_set_property(s, subject, key, value) ==
    [metadata_set(s, subject, key, value) EXCEPT !.session.nset = @ + 1]

session_create(s, id) ==
    LET \* spa_dict_for_each over impl->properties, lines 200-237, from item i on
        RECURSIVE each(_, _)
        each(t, i) ==
            IF i > Len(PropKeys) THEN t
            ELSE LET key   == PropKeys[i]
                     value == t.impl.properties[key]
                     it    == IF value = NULL THEN 0
                              ELSE spa_json_enter_object(value)
                 IN  IF it = 0 THEN each(t, i + 1)
                     ELSE IF find_name(entry_name(value, it, NULL),
                                       t.session.objects[id])
                             /\ key \in DefaultKeys
                     THEN each(pw_metadata_set_property(t, PW_ID_CORE, key,
                                                        snprintf_u(id)),
                               i + 1)
                     ELSE each(t, i + 1)
    IN  IF s.session.objects[id].type # "Node" THEN s
        ELSE each(s, 1)

\* session_remove resetting each slot after its key was cleared
session_remove_late(s, id) ==
    LET step(t, i) ==
            IF t.impl.defaults[i].value = id
            THEN [pw_metadata_set_property(t, PW_ID_CORE,
                                           t.impl.defaults[i].key, NULL)
                     EXCEPT !.impl.defaults[i].value = SPA_ID_INVALID]
            ELSE t
    IN  IF s.session.objects[id].type # "Node" THEN s
        ELSE step(step(step(s, 1), 2), 3)

session_remove(s, id) ==
    LET \* the loop of lines 248-253 from slot i on
        RECURSIVE each(_, _)
        each(t, i) ==
            IF i > Len(t.impl.defaults) THEN t
            ELSE IF t.impl.defaults[i].value = id
            THEN each(pw_metadata_set_property(
                          [t EXCEPT !.impl.defaults[i].value = SPA_ID_INVALID],
                          PW_ID_CORE, t.impl.defaults[i].key, NULL),
                      i + 1)
            ELSE each(t, i + 1)
    IN  IF s.session.objects[id].type # "Node" THEN s
        ELSE each(s, 1)

session_destroy(s) ==
    [remove_idle_timeout(s) EXCEPT !.impl.live = FALSE,
                                   !.impl.properties = NoProps]

sm_default_nodes_start(s, loaded) ==
    [s EXCEPT !.impl = [live |-> TRUE, defaults |-> NoDefaults,
                        properties |-> loaded, idle_timeout |-> FALSE],
              !.session.state = loaded, !.session.op = "start"]

\* -------------------------------------------------------------- actions
Init ==
    /\ run = "init"
    /\ vars = [h \in Handles |-> "none"]
    /\ remotes = <<>>
    /\ current = NoRemote
    /\ rds = [h \in Handles |-> NoRd]
    /\ gl = <<>>
    /\ px = <<>>
    /\ nlines = 0
    /\ typing = TRUE
    /\ observed = [h \in Handles |-> {}]
    /\ last = NoOut
    /\ kind = ""
    /\ snap = NoInfo
    /\ mrg = [op |-> "", update |-> NoUpdate]
    /\ impl = NoImpl
    /\ session = NoSession

Set(t) ==
    /\ run' = t.run
    /\ vars' = t.vars
    /\ remotes' = t.remotes
    /\ current' = t.current
    /\ rds' = t.rds
    /\ gl' = t.gl
    /\ px' = t.px
    /\ last' = t.last
    /\ UNCHANGED <<kind, snap, mrg, impl, session>>

\* the outcomes of an access through the back-reference of proxy p
Stale(p) == IF Dangling(Cur, px[p].global) THEN StaleOutcomes(Cur, px[p].global)
            ELSE {0}

\* the outcomes of undefined behaviour a handler can meet in this state: there
\* are none to choose while every handle names a connection, every proxy a
\* Global references is live and every back-reference is to a live Global
UBs ==
    IF \/ \E h \in Handles : vars[h] \in {"module", "proxy"}
       \/ \E g \in 1 .. Len(gl) : gl[g].proxy # NoProxy /\ ~LiveProxy(Cur, gl[g].proxy)
    THEN UB ELSE {"benign"}

StaleAny ==
    IF \E p \in 1 .. Len(px) : px[p].live /\ Dangling(Cur, px[p].global)
    THEN -1 .. Len(gl) ELSE {0}

\* main: do_connect(&data, "connect", "internal", &error), then the loop runs
Main ==
    /\ run = "init"
    /\ \E ok \in BOOLEAN :
          Set([do_connect(Cur, ok) EXCEPT !.run = "running"])
    /\ UNCHANGED <<nlines, typing, observed>>

\* do_input: one line read, parsed and run, then the barrier on data->current
Line(t) ==
    /\ run = "running"
    /\ typing
    /\ nlines < MaxLines
    /\ Len(t.px) <= MaxProxies
    /\ nlines' = nlines + 1
    /\ Set(t)
    /\ UNCHANGED <<typing, observed>>

InputConnect ==
    \E ok \in BOOLEAN, ub \in UBs :
        /\ ok => NextVar(Cur) < MaxVars
        /\ Line(do_input(do_connect(Cur, ok), ub))

InputDisconnect ==
    \E arg \in Handles \cup {NoRemote}, ub \in UBs, w \in StaleAny :
        Line(do_input(do_disconnect(Cur, arg, w, ub), ub))

InputSwitchRemote ==
    \E arg \in Handles \cup {NoRemote}, ub \in UBs :
        Line(do_input(do_switch_remote(Cur, arg, ub), ub))

InputLoadModule ==
    \E ok \in BOOLEAN, ub \in UBs :
        /\ ok => NextVar(Cur) < MaxVars
        /\ Line(do_input(do_load_module(Cur, 0, ok), ub))

InputCreateNode ==
    \E ub \in UBs :
        /\ NextVar(Cur) < MaxVars
        /\ Line(do_input(do_create_node(Cur, 0, ub), ub))

InputInfo ==
    \E arg \in Ids \cup {All}, ub \in UBs :
        Line(do_input(do_info(Cur, arg, ub), ub))

InputEnumParams ==
    \E id \in Ids, ub \in UBs :
        Line(do_input(do_enum_params(Cur, id, ub), ub))

InputPermissions ==
    \E id \in Ids, ub \in UBs :
        Line(do_input(do_permissions(Cur, id, ub), ub))

InputGetPermissions ==
    \E id \in Ids, ub \in UBs :
        Line(do_input(do_get_permissions(Cur, id, ub), ub))

InputDestroy ==
    \E id \in Ids, ub \in UBs :
        Line(do_input(do_destroy(Cur, id, ub), ub))

InputListObjects ==
    \E filter \in AnnouncedTypes \cup {""}, ub \in UBs :
        Line(do_input(do_list_objects(Cur, filter, ub), ub))

InputExportNode ==
    \E what \in {"none", "Module", "Node"}, arg \in Handles \cup {NoRemote},
       ub \in UBs :
        /\ NextVar(Cur) < MaxVars
        /\ Line(do_input(do_export_node(Cur, 0, what, arg, ub), ub))

\* a command typed without its mandatory arguments
InputUsage ==
    \E cmd \in Tokens, ub \in UBs :
        Line(do_input(parse(Cur, cmd, ub), ub))

InputOther ==
    \E ok \in BOOLEAN, ub \in UBs :
        Line(do_input(do_nothing(Cur, ok), ub))

\* read() returns 0: pw_main_loop_quit
InputEOF ==
    /\ run = "running"
    /\ typing
    /\ Set([Cur EXCEPT !.run = "quit", !.last.op = "eof"])
    /\ UNCHANGED <<nlines, typing, observed>>

\* the user sends nothing from now on
StopTyping ==
    /\ run = "running"
    /\ typing
    /\ typing' = FALSE
    /\ UNCHANGED <<run, vars, remotes, current, rds, gl, px, nlines, observed, last,
                   kind, snap, mrg, impl, session>>

\* the service completes the oldest barrier of a connection
OnCoreDone(h) ==
    /\ run = "running"
    /\ IsRemote(Cur, h)
    /\ rds[h].inflight # <<>>
    /\ Set(on_core_done([Cur EXCEPT !.rds[h].inflight = Tail(@)], h,
                        Head(rds[h].inflight)))
    /\ UNCHANGED <<nlines, typing, observed>>

\* the core of a connection delivers an error about the object with this id
CoreError ==
    \E h \in Handles, id \in Ids :
        /\ run = "running"
        /\ IsRemote(Cur, h)
        /\ Set(on_core_error(Cur, h, id))
        /\ UNCHANGED <<nlines, typing, observed>>

Signal ==
    /\ run = "running"
    /\ Set(do_quit(Cur))
    /\ UNCHANGED <<nlines, typing, observed>>

\* the service announces an object under an id it is not using
RegistryGlobalOf(types) ==
    \E h \in Handles, id \in Ids, type \in types :
        /\ run = "running"
        /\ IsRemote(Cur, h)
        /\ pw_map_lookup(rds[h].globals, id) = NoGlobal
        /\ Len(gl) < MaxGlobals
        /\ type \in SupportedTypes => Len(px) < MaxProxies
        /\ Set(registry_event_global(Cur, h, id, type))
        /\ observed' = [observed EXCEPT ![h] = @ \cup {id}]
        /\ UNCHANGED <<nlines, typing>>

RegistryGlobal == RegistryGlobalOf(AnnouncedTypes)

\* the same where no client object is announced
RegistryGlobalNoClient == RegistryGlobalOf(AnnouncedTypes \ {"Client"})

\* the same where no node is announced
RegistryGlobalNoNode == RegistryGlobalOf(AnnouncedTypes \ {"Node"})

RegistryGlobalRemove ==
    \E h \in Handles, id \in Ids :
        /\ run = "running"
        /\ IsRemote(Cur, h)
        /\ Set(registry_event_global_remove(Cur, h, id))
        /\ observed' = [observed EXCEPT ![h] = @ \ {id}]
        /\ UNCHANGED <<nlines, typing>>

\* an info event on a live proxy: a bound proxy hears of the object it was
\* bound to, a created one of the id the service gave its object
ProxyInfo ==
    \E p \in 1 .. Len(px), id \in Ids :
        /\ run = "running"
        /\ px[p].live /\ IsRemote(Cur, px[p].rd)
        /\ px[p].oid # -1 => id = px[p].oid
        /\ \E w \in (IF px[p].global = NoGlobal THEN {0} ELSE Stale(p)) :
              Set(event_info(Cur, p, id, w))
        /\ UNCHANGED <<nlines, typing, observed>>

\* the destroy event of a live proxy
ProxyDestroy ==
    \E p \in 1 .. Len(px) :
        /\ run = "running"
        /\ px[p].live /\ IsRemote(Cur, px[p].rd)
        /\ \E w \in Stale(p) :
              Set(proxy_destroy([Cur EXCEPT !.last.op = "destroy_proxy"], p, w))
        /\ UNCHANGED <<nlines, typing, observed>>

\* bind_global on a Global of a session-manager type: the events picked
BindKind ==
    /\ kind = ""
    /\ kind' \in Kinds
    /\ UNCHANGED <<run, vars, remotes, current, rds, gl, px, nlines, typing,
                   observed, last, snap, mrg, impl, session>>

\* an info event with an update of the object's kind
KindInfo ==
    \E m \in SUBSET KindBits(kind), v \in Vals :
        /\ kind # ""
        /\ snap' = merge(kind, snap, Update(m, v))
        /\ mrg' = [op |-> "info", update |-> Update(m, v)]
        /\ UNCHANGED <<run, vars, remotes, current, rds, gl, px, nlines, typing,
                       observed, last, kind, impl, session>>

\* the same update delivered once more
KindInfoAgain ==
    /\ mrg.op \in {"info", "again"}
    /\ snap' = merge(kind, snap, mrg.update)
    /\ mrg' = [mrg EXCEPT !.op = "again"]
    /\ UNCHANGED <<run, vars, remotes, current, rds, gl, px, nlines, typing,
                   observed, last, kind, impl, session>>

\* the snapshot printed, by info <id> or as the first info of a flagged Global
KindRender ==
    /\ snap.set
    /\ snap' = info_func(snap)
    /\ mrg' = [mrg EXCEPT !.op = "render"]
    /\ UNCHANGED <<run, vars, remotes, current, rds, gl, px, nlines, typing,
                   observed, last, kind, impl, session>>

\* destroy_proxy: the snapshot released
KindDestroy ==
    /\ snap.set
    /\ snap' = NoInfo
    /\ mrg' = [op |-> "destroy", update |-> NoUpdate]
    /\ UNCHANGED <<run, vars, remotes, current, rds, gl, px, nlines, typing,
                   observed, last, kind, impl, session>>

\* ---- default-nodes: the events the media session delivers to the module
DSet(s) ==
    /\ impl' = s.impl
    /\ session' = s.session
    /\ UNCHANGED <<run, vars, remotes, current, rds, gl, px, nlines, typing,
                   observed, last, kind, snap, mrg>>

\* the state a handler starts from: nothing set, saved or armed by it yet
Fresh(op) ==
    [impl |-> impl,
     session |-> [session EXCEPT !.op = op, !.nset = 0, !.saved = FALSE,
                                 !.armed = FALSE]]

Start ==
    /\ session.op = ""
    /\ \E loaded \in
           {NoProps,
            [NoProps EXCEPT ![DEFAULT_CONFIG_AUDIO_SOURCE_KEY] = setf_name(<<"a">>)],
            [NoProps EXCEPT ![OtherKey] = setf_name(<<"a">>)]} :
          DSet(sm_default_nodes_start(Fresh("start"), loaded))

\* a client of the metadata sets or clears a property
MetadataPropertyOf(keys, values) ==
    \E subject \in {PW_ID_CORE, 1}, key \in keys, value \in values :
        /\ impl.live
        /\ DSet(metadata_set(Fresh("property"), subject, key, value))

MetadataProperty == MetadataPropertyOf(DefaultKeys \cup {OtherKey, NoKey}, Values)

\* the same on the first and the last default key with ids for values
MetadataDefault ==
    MetadataPropertyOf({DEFAULT_CONFIG_AUDIO_SINK_KEY,
                        DEFAULT_CONFIG_VIDEO_SOURCE_KEY, NoKey},
                       {snprintf_u(id) : id \in ObjIds} \cup {NULL})

\* an object appears in the session: it is listed, then create is emitted
ObjectCreateOf(objects) ==
    \E id \in ObjIds, object \in objects :
        /\ impl.live
        /\ session.objects[id] = NoObject
        /\ DSet(session_create(
                    [Fresh("create") EXCEPT !.session.objects[id] = object], id))

ObjectCreate == ObjectCreateOf(Objects)

\* the same with plain names only
ObjectCreatePlain == ObjectCreateOf({o \in Objects : o.name = <<"a">>})

\* an object goes away: remove is emitted, then it is dropped from the list
ObjectRemove ==
    \E id \in ObjIds :
        /\ impl.live
        /\ session.objects[id] # NoObject
        /\ DSet([session_remove(Fresh("remove"), id) EXCEPT
                    !.session.objects[id] = NoObject])

\* the save timer fires
IdleTimeout ==
    /\ impl.live
    /\ impl.idle_timeout
    /\ DSet(idle_timeout(Fresh("timeout")))

SessionDestroy ==
    /\ impl.live
    /\ DSet(session_destroy(Fresh("destroy")))

Next ==
    \/ Main
    \/ InputConnect
    \/ InputDisconnect
    \/ InputSwitchRemote
    \/ InputLoadModule
    \/ InputCreateNode
    \/ InputInfo
    \/ InputEnumParams
    \/ InputPermissions
    \/ InputGetPermissions
    \/ InputDestroy
    \/ InputExportNode
    \/ InputListObjects
    \/ CoreError
    \/ Signal
    \/ InputUsage
    \/ InputOther
    \/ InputEOF
    \/ StopTyping
    \/ \E h \in Handles : OnCoreDone(h)
    \/ RegistryGlobal
    \/ RegistryGlobalRemove
    \/ ProxyInfo
    \/ ProxyDestroy
    \/ BindKind
    \/ KindInfo
    \/ KindInfoAgain
    \/ KindRender
    \/ KindDestroy
    \/ Start
    \/ MetadataProperty
    \/ ObjectCreate
    \/ ObjectRemove
    \/ IdleTimeout
    \/ SessionDestroy
    \/ MetadataDefault
    \/ ObjectCreatePlain

Spec == Init /\ [][Next]_vs

\* the connection set and the sequencer: the commands on connections and the
\* barrier completions, no registry traffic
NextConn ==
    \/ Main
    \/ InputConnect
    \/ InputDisconnect
    \/ InputSwitchRemote
    \/ InputLoadModule
    \/ InputCreateNode
    \/ InputOther
    \/ InputEOF
    \/ \E h \in Handles : OnCoreDone(h)

SpecConn == Init /\ [][NextConn]_vs

\* the connection commands with the error events of the cores
NextErr ==
    \/ Main
    \/ InputConnect
    \/ InputDisconnect
    \/ InputSwitchRemote
    \/ InputOther
    \/ InputEOF
    \/ CoreError
    \/ \E h \in Handles : OnCoreDone(h)

SpecErr == Init /\ [][NextErr]_vs

\* commands typed without their arguments, with and without a connection,
\* with Globals in the registry
NextUsage ==
    \/ Main
    \/ InputUsage
    \/ RegistryGlobalNoNode

SpecUsage == Init /\ [][NextUsage]_vs

\* the registry and the proxies of the connections: registry and proxy events
\* and the commands on globals, the barriers left uncompleted
NextReg ==
    \/ Main
    \/ InputInfo
    \/ InputEnumParams
    \/ InputPermissions
    \/ InputGetPermissions
    \/ InputDestroy
    \/ RegistryGlobalNoNode
    \/ RegistryGlobalRemove

SpecReg == Init /\ [][NextReg]_vs

\* the proxies: registry and proxy events, created objects and info
NextProxy ==
    \/ Main
    \/ InputCreateNode
    \/ InputInfo
    \/ RegistryGlobalNoClient
    \/ RegistryGlobalRemove
    \/ ProxyInfo
    \/ ProxyDestroy

SpecProxy == Init /\ [][NextProxy]_vs

\* the sequencer: the commands that make, switch and drop connections, a user
\* who may stop typing, and a service that completes the barriers of every
\* connection, in issue order
NextLive ==
    \/ Main
    \/ InputConnect
    \/ InputDisconnect
    \/ InputSwitchRemote
    \/ InputOther
    \/ StopTyping
    \/ \E h \in Handles : OnCoreDone(h)

LiveConn == Init /\ [][NextLive]_vs /\ \A h \in Handles : WF_vs(OnCoreDone(h))

\* the commands that send requests on Globals, with the registry and proxy
\* events that bind, unbind and remove what they act on
NextCmd ==
    \/ Main
    \/ InputEnumParams
    \/ InputPermissions
    \/ InputGetPermissions
    \/ InputDestroy
    \/ RegistryGlobal
    \/ RegistryGlobalRemove
    \/ ProxyInfo
    \/ ProxyDestroy

SpecCmd == Init /\ [][NextCmd]_vs

\* the info snapshot of one session-manager object: updates of every mask
\* and value, repeated, rendered, released
NextMerge ==
    \/ BindKind
    \/ KindInfo
    \/ KindInfoAgain
    \/ KindRender
    \/ KindDestroy

SpecMerge == Init /\ [][NextMerge]_vs

\* the default-nodes module between metadata clients and the session's objects
NextDefault ==
    \/ Start
    \/ MetadataDefault
    \/ ObjectCreate
    \/ ObjectRemove

SpecDefault == Init /\ [][NextDefault]_vs

\* the same with plainly named objects and the outer default keys
NextRemove ==
    \/ Start
    \/ MetadataDefault
    \/ ObjectCreatePlain
    \/ ObjectRemove

SpecRemove == Init /\ [][NextRemove]_vs

\* the module between metadata clients, its save timer and the session's end
NextSave ==
    \/ Start
    \/ MetadataProperty
    \/ IdleTimeout
    \/ SessionDestroy

\* the main loop runs its timers
LiveSave == Init /\ [][NextSave]_vs /\ WF_vs(IdleTimeout)

\* ---------------------------------------------------------------- claims
Members(q) == {q[i] : i \in 1 .. Len(q)}

\* C1: for every connection, lookup(id) in its registry returns a Global
\* exactly when an add for id was observed and no later remove for id; the
\* Global returned is the live record announced under that id
C1_LookupIffObserved ==
    \A h \in Handles : IsRemote(Cur, h) =>
        \A id \in Ids :
            LET g == pw_map_lookup(rds[h].globals, id)
            IN  /\ (g # NoGlobal) <=> (id \in observed[h])
                /\ g # NoGlobal =>
                      LiveGlobal(Cur, g) /\ gl[g].id = id /\ gl[g].rd = h

\* an id added again after its removal, below it a slot that was never added
C1_Witness ==
    /\ last.op = "global"
    /\ Len(gl) = 2 /\ gl[1].freed # 0 /\ gl[2].freed = 0 /\ gl[2].id = 1
    /\ pw_map_lookup(rds[gl[2].rd].globals, 0) = NoGlobal
    /\ pw_map_lookup(rds[gl[2].rd].globals, 1) = 2

\* C2: current is None or a Connection that is a member of the connection
\* list, never a destroyed connection or an object that is no Connection
C2_CurrentIsConnection ==
    current = NoRemote \/ (IsRemote(Cur, current) /\ current \in Members(remotes))

\* the most recently used surviving Connection of a list, None without one
Survivor(q, v) ==
    LET c == SelectSeq(q, LAMBDA h : v[h] = "remote")
    IN  IF c = <<>> THEN NoRemote ELSE Last(c)

\* C3: a disconnect that removes the current Connection makes current the
\* most recently used surviving Connection, or None when no Connection
\* survives; one that removes another Connection leaves current unchanged
C3_DisconnectPromotesSurvivor ==
    [][\A c \in Handles :
          (vars[c] = "remote" /\ vars'[c] = "freed") =>
              IF current = c THEN current' = Survivor(remotes', vars')
              ELSE current' = current]_vs

\* C4: a prompt is shown for a connection only when no barrier issued on it
\* is outstanding any more, and a completion whose sequence differs from the
\* connection's recorded one shows no prompt and changes no state (the
\* completion itself leaves the wire)
C4_NoPromptWhileAwaiting ==
    [][/\ last'.prompt # NoRemote => rds'[last'.prompt].inflight = <<>>
       /\ \A h \in Handles :
             ( /\ last'.op = "done"
               /\ rds[h].inflight # <<>>
               /\ rds'[h].inflight = Tail(rds[h].inflight)
               /\ Head(rds[h].inflight) # rds[h].prompt_pending )
             => /\ last'.prompt = NoRemote
                /\ rds' = [rds EXCEPT ![h].inflight = Tail(@)]
                /\ UNCHANGED <<run, vars, remotes, current, gl, px>>]_vs

\* a completion of an older barrier delivered while a newer one is outstanding
C4_Witness ==
    /\ last.op = "done" /\ last.prompt = NoRemote
    /\ \E h \in Handles : IsRemote(Cur, h) /\ rds[h].inflight # <<>>

C6_PromptEventually ==
    [](( /\ run = "running" /\ ~typing /\ nlines > 0
         /\ IsRemote(Cur, current)
         /\ rds[current].inflight # <<>> )
       => <>( /\ last.op = "done" /\ last.prompt = current
              /\ rds[current].inflight = <<>> ))

\* the prompt shown after several lines whose barriers piled up
C6_Witness ==
    /\ last.op = "done" /\ last.prompt # NoRemote
    /\ ~typing /\ nlines >= 2 /\ rds[last.prompt].seq >= 3
    /\ current = last.prompt

\* C7: no live proxy keeps a back-reference to a Global that was removed
C7_NoBackReferenceToRemoved ==
    \A p \in 1 .. Len(px) :
        px[p].live => px[p].global = NoGlobal \/ LiveGlobal(Cur, px[p].global)

\* C8: a Global never references a proxy that was destroyed
C8_GlobalDetachedFromDestroyed ==
    \A g \in 1 .. Len(gl) :
        LiveGlobal(Cur, g) /\ gl[g].proxy # NoProxy => LiveProxy(Cur, gl[g].proxy)

UnsupportedUntouched ==
    \A g \in 1 .. Len(gl) :
        LiveGlobal(Cur, g) /\ gl[g].type \notin SupportedTypes =>
            /\ gl[g].proxy = NoProxy /\ ~gl[g].info_pending
            /\ pw_map_lookup(rds[gl[g].rd].globals, gl[g].id) = g

\* C9: a Global of no supported kind stays in the registry with no proxy and
\* no first-info-pending flag, and a bind that fails as unsupported changes no
\* proxy, no Global record and no registry entry (the eager one of a discovery
\* leaving the Global stored as announced)
C9_FailedBindLeavesGlobal ==
    [][/\ UnsupportedUntouched'
       /\ last'.err = "unsupported type" =>
             /\ px' = px
             /\ \A g \in 1 .. Len(gl) : gl'[g] = gl[g]
             /\ Len(gl') = Len(gl) =>
                   \A h \in Handles : rds'[h].globals = rds[h].globals
             /\ Len(gl') # Len(gl) =>
                   /\ Len(gl') = Len(gl) + 1
                   /\ gl'[Len(gl')].type \in AnnouncedTypes \ SupportedTypes
                   /\ \A h \in Handles : \A id \in Ids :
                         pw_map_lookup(rds[h].globals, id) # NoGlobal =>
                             pw_map_lookup(rds'[h].globals, id)
                                 = pw_map_lookup(rds[h].globals, id)]_vs

\* a lazy bind by a command failed on an unsupported Global
C9_Witness ==
    /\ last.err = "unsupported type" /\ last.op \in {"info", "enum-params"}
    /\ \E g \in 1 .. Len(gl) : LiveGlobal(Cur, g) /\ gl[g].type = "Metadata"

\* C10: each Global has at most one live proxy bound to it through the registry
C10_AtMostOneBoundProxy ==
    \A g \in 1 .. Len(gl) :
        LiveGlobal(Cur, g) =>
            Cardinality({p \in 1 .. Len(px) :
                            px[p].live /\ ~px[p].adhoc /\ px[p].global = g}) <= 1

\* the field groups of a kind's snapshot, each with the bit of the kind's own
\* change mask that names it
GroupBits(k) ==
    IF k = "Session"
    THEN {<<"props", PW_SESSION_CHANGE_MASK_PROPS>>,
          <<"params", PW_SESSION_CHANGE_MASK_PARAMS>>}
    ELSE IF k = "Endpoint"
    THEN {<<"n_streams", PW_ENDPOINT_CHANGE_MASK_STREAMS>>,
          <<"session_id", PW_ENDPOINT_CHANGE_MASK_SESSION>>,
          <<"props", PW_ENDPOINT_CHANGE_MASK_PROPS>>,
          <<"params", PW_ENDPOINT_CHANGE_MASK_PARAMS>>}
    ELSE IF k = "EndpointStream"
    THEN {<<"props", PW_ENDPOINT_STREAM_CHANGE_MASK_PROPS>>,
          <<"params", PW_ENDPOINT_STREAM_CHANGE_MASK_PARAMS>>}
    ELSE {}

\* a field group of a snapshot or of an update; the list goes with its count
Group(r, f) ==
    IF f = "params" THEN <<r.n_params, r.params>>
    ELSE IF f = "props" THEN <<r.props>>
    ELSE IF f = "n_streams" THEN <<r.n_streams>>
    ELSE <<r.session_id>>

AllGroups == {"n_streams", "session_id", "props", "params"}

\* C11: a merged update replaces exactly the field groups its change mask
\* names, by the bits of the object's kind: a named group takes the update's
\* value, every other group keeps the value of the prior snapshot
C11_MergeReplacesNamedGroups ==
    [][mrg'.op \in {"info", "again"} =>
          /\ \A gb \in GroupBits(kind) :
                 IF gb[2] \in mrg'.update.change_mask
                 THEN Group(snap', gb[1]) = Group(mrg'.update, gb[1])
                 ELSE Group(snap', gb[1]) = Group(snap, gb[1])
          /\ \A f \in AllGroups \ {gb[1] : gb \in GroupBits(kind)} :
                 Group(snap', f) = Group(snap, f)]_vs

\* C12: an update applied a second time in a row leaves the snapshot as the
\* first application made it, from no snapshot or from any; merging the
\* update just merged changes nothing, and the change mask of the snapshot
\* is empty after a render
C12_MergeIdempotent ==
    [][/\ mrg'.op = "again" => snap' = snap
       /\ mrg'.op \in {"info", "again"} =>
             merge(kind, snap', mrg'.update) = snap'
       /\ mrg'.op = "render" => snap'.change_mask = {}]_vs

\* an endpoint update naming parameters and properties delivered twice to a
\* snapshot that held other values
C12_Witness ==
    /\ kind = "Endpoint" /\ mrg.op = "again"
    /\ mrg.update.change_mask = {PW_ENDPOINT_CHANGE_MASK_PROPS,
                                 PW_ENDPOINT_CHANGE_MASK_PARAMS}
    /\ mrg.update.props = 2 /\ snap.props = 2 /\ snap.n_params = 2
    /\ snap.id = 1 /\ snap.n_streams = 1

\* the Globals in the registry of the current connection
CurrentGlobals ==
    IF IsRemote(Cur, current)
    THEN {rds[current].globals[i] : i \in 1 .. Len(rds[current].globals)}
             \ {NoGlobal}
    ELSE {}

\* C13: info on a Global with no bound proxy binds and raises
\* first-info-pending without rendering; info that finds its Globals bound
\* renders at once and leaves the flags; an info event renders exactly when
\* the Global of its proxy is flagged, and clears that flag
C13_FirstInfoRendersOnce ==
    [][/\ last'.op = "info" =>
             /\ \A g \in 1 .. Len(gl) :
                    (LiveGlobal(Cur, g) /\ gl[g].proxy = NoProxy
                        /\ gl'[g].proxy # NoProxy)
                    => gl'[g].info_pending /\ last'.render # gl'[g].proxy
             /\ ( /\ last'.err = "" /\ px' = px
                  /\ CurrentGlobals # {}
                  /\ \A g \in CurrentGlobals : gl[g].proxy # NoProxy )
                => last'.render # NoProxy /\ gl' = gl
       /\ last'.op = "event_info" =>
             /\ last'.render # NoProxy =>
                    LET g == px'[last'.render].global
                    IN  /\ LiveGlobal(Cur, g)
                        /\ gl[g].info_pending /\ ~gl'[g].info_pending
             /\ \A g \in 1 .. Len(gl) :
                    (LiveGlobal(Cur, g) /\ gl[g].info_pending
                        /\ ~gl'[g].info_pending)
                    => last'.render # NoProxy /\ px'[last'.render].global = g]_vs

\* the handlers of the command table
CommandOps == {"connect", "disconnect", "switch-remote", "load-module",
               "create-device", "create-node", "create-link", "info",
               "destroy", "export-node", "enum-params", "permissions",
               "get-permissions", "other"}

\* C14: a command whose handler returns failure leaves the registries, the
\* Globals with their bindings and flags, the proxies, the connection list,
\* current and the Variable table as they were, and has sent no request
C14_FailedCommandChangesNothing ==
    [][(last'.op \in CommandOps /\ last'.err # "") =>
          /\ gl' = gl /\ px' = px
          /\ \A h \in Handles : rds'[h].globals = rds[h].globals
          /\ remotes' = remotes /\ current' = current /\ vars' = vars
          /\ last'.req = 0]_vs

\* C15: in every state with a current connection, info, destroy, enum-params,
\* permissions and get-permissions given an id for which its registry holds
\* no Global fail with the unknown-global error, send no request, bind nothing
\* and leave the registry and everything else as it is
C15_UnknownGlobalFails ==
    (run = "running" /\ IsRemote(Cur, current)) =>
        \A id \in 0 .. (MaxId + 1) :
            pw_map_lookup(rds[current].globals, id) = NoGlobal =>
                \A ub \in UB :
                    \A t \in {do_info(Cur, id, ub), do_destroy(Cur, id, ub),
                               do_enum_params(Cur, id, ub),
                               do_permissions(Cur, id, ub),
                               do_get_permissions(Cur, id, ub)} :
                        /\ t.last.err = "unknown global" /\ t.last.req = 0
                        /\ t.last.render = NoProxy /\ ~t.last.ub
                        /\ [t EXCEPT !.last = NoOut] = Cur

\* destroy was given the id of a placeholder below a live Global
C15_Witness ==
    /\ last.op = "destroy" /\ last.err = "unknown global"
    /\ IsRemote(Cur, current)
    /\ Len(rds[current].globals) = 2
    /\ rds[current].globals[1] = NoGlobal /\ rds[current].globals[2] # NoGlobal
    /\ \E g \in 1 .. Len(gl) : ~LiveGlobal(Cur, g)

\* C16: in every state with a current connection, permissions and
\* get-permissions on the id of a Global that is no Client fail as not a
\* client with nothing bound and nothing sent; on a Client they bind when the
\* Global has no live proxy and send exactly one request on a live proxy
C16_PermissionsNeedClient ==
    (run = "running" /\ IsRemote(Cur, current)) =>
        \A id \in Ids :
            LET g == pw_map_lookup(rds[current].globals, id)
            IN  g # NoGlobal =>
                \A ub \in UB :
                    \A t \in {do_permissions(Cur, id, ub),
                               do_get_permissions(Cur, id, ub)} :
                        IF gl[g].type # "Client"
                        THEN /\ t.last.err = "not a client" /\ t.last.req = 0
                             /\ t.px = px /\ t.gl = gl
                        ELSE /\ t.last.err = "" /\ t.last.req = 1
                             /\ t.run = "running" /\ ~t.last.ub
                             /\ LiveProxy(t, t.gl[g].proxy)
                             /\ LiveProxy(Cur, gl[g].proxy) => t.px = px

\* C17: in every state, disconnect, switch-remote and export-node given a
\* handle act on it only when it names a live Connection: a handle absent
\* from the Variable table fails as an unknown remote, one that names a module
\* or an ad-hoc proxy fails as a wrong type, and neither changes anything
C17_HandleMustBeConnection ==
    run = "running" =>
        \A arg \in Handles : ~IsRemote(Cur, arg) =>
            \A ub \in UB :
                \A t \in {do_disconnect(Cur, arg, 0, ub),
                           do_switch_remote(Cur, arg, ub),
                           do_export_node(Cur, 0, "Node", arg, ub)} :
                    /\ t.last.err = IF vars_lookup(Cur, arg) = NoRemote
                                    THEN "Remote does not exist"
                                    ELSE "wrong type"
                    /\ [t EXCEPT !.last = NoOut] = Cur

\* the Globals a registry holds, in the order of their ids
RealGlobals(globals) == SelectSeq(globals, LAMBDA g : g # NoGlobal)

\* do_global_info on each Global of a list in turn, as `info all` reports it
RECURSIVE InfoEach(_, _, _)
InfoEach(t, list, ub) ==
    IF list = <<>> \/ t.run = "crashed" THEN t
    ELSE InfoEach(do_global_info(t, Head(list), ub), Tail(list), ub)

\* C18: in every state and for every connection, a Global announced under a
\* free id is stored at that id, every slot below it that did not exist reads
\* as none and every other slot reads as before; list-objects prints exactly
\* the Globals held, `info all` does what info does on those Globals in turn,
\* and the teardown of the connection frees them and leaves the others
C18_Backfill ==
    run = "running" =>
        \A h \in Handles : IsRemote(Cur, h) =>
            LET G == rds[h].globals
            IN  /\ \A id \in Ids, type \in AnnouncedTypes :
                       pw_map_lookup(G, id) = NoGlobal =>
                           LET t  == registry_event_global(Cur, h, id, type)
                               G1 == t.rds[h].globals
                           IN  /\ Len(G1) = IF id >= Len(G) THEN id + 1 ELSE Len(G)
                               /\ \A j \in 0 .. Len(G1) - 1 :
                                      pw_map_lookup(G1, j) =
                                          IF j = id THEN Len(gl) + 1
                                          ELSE pw_map_lookup(G, j)
                               /\ t.gl[Len(gl) + 1].id = id
                               /\ LiveGlobal(t, Len(gl) + 1)
                               /\ \A k \in Handles \ {h} : t.rds[k] = rds[k]
                /\ h = current =>
                       /\ do_list_objects(Cur, "", "benign").last.list = RealGlobals(G)
                       /\ \A ub \in UB :
                              LET t == do_info(Cur, All, ub)
                                  u == InfoEach([Cur EXCEPT !.last.op = "info"],
                                                RealGlobals(G), ub)
                              IN  IF u.run = "crashed" THEN t = u
                                  ELSE t = [u EXCEPT !.last.err = ""]
                /\ LET t == on_core_destroy(Cur, h)
                   IN  /\ \A i \in 1 .. Len(t.rds[h].globals) :
                              t.rds[h].globals[i] = NoGlobal
                       /\ \A g \in 1 .. Len(gl) :
                              IF gl[g].rd = h THEN ~LiveGlobal(t, g)
                              ELSE t.gl[g] = gl[g]

\* the first Global of a connection was announced above id 0: the slots below
\* it are placeholders
C18_Witness ==
    /\ run = "running" /\ last.op = "global" /\ IsRemote(Cur, current)
    /\ Len(gl) = 1 /\ gl[1].rd = current
    /\ Len(rds[current].globals) > 1
    /\ rds[current].globals[1] = NoGlobal
    /\ rds[current].globals[Len(rds[current].globals)] = 1

\* C19: in every state, the removal of an id under which the registry of a
\* connection holds no Global (never announced, removed already, or a
\* placeholder) reports the unknown global and changes nothing else: the
\* registries, the proxies, the connections, the barriers, the running program
C19_RemoveUnknownOnlyReports ==
    run = "running" =>
        \A h \in Handles, id \in Ids :
            (IsRemote(Cur, h) /\ pw_map_lookup(rds[h].globals, id) = NoGlobal) =>
                LET t == registry_event_global_remove(Cur, h, id)
                IN  /\ t.last = [NoOut EXCEPT !.op = "global_remove",
                                              !.err = "unknown global"]
                    /\ [t EXCEPT !.last = NoOut] = Cur

\* a removal has just been reported unknown in a registry that holds a Global
\* and from which one was removed before
C19_Witness ==
    /\ run = "running"
    /\ last.op = "global_remove" /\ last.err = "unknown global"
    /\ \E g \in 1 .. Len(gl) : ~LiveGlobal(Cur, g)
    /\ \E g \in 1 .. Len(gl) : LiveGlobal(Cur, g) /\ gl[g].rd = current

\* C20: in every state, switch-remote with the handle of a live Connection
\* puts it last in the list and makes it current, the list keeping its
\* members and the order of the others, the registries and all else as they
\* were; with a handle the Variable table does not hold it fails and changes
\* nothing; with no argument it does what it does with handle 0
C20_SwitchRemoteMovesLast ==
    run = "running" =>
        \A arg \in Handles \cup {NoRemote}, ub \in UB :
            LET idx == IF arg = NoRemote THEN 0 ELSE arg
                t   == do_switch_remote(Cur, arg, ub)
            IN  /\ IsRemote(Cur, idx) =>
                       /\ t.last = [NoOut EXCEPT !.op = "switch-remote"]
                       /\ Last(t.remotes) = idx /\ t.current = idx
                       /\ Members(t.remotes) = Members(remotes)
                       /\ Len(t.remotes) = Len(remotes)
                       /\ Without(t.remotes, idx) = Without(remotes, idx)
                       /\ [t EXCEPT !.last = NoOut, !.remotes = remotes,
                                    !.current = current] = Cur
                /\ vars_lookup(Cur, idx) = NoRemote =>
                       /\ t.last = [NoOut EXCEPT !.op = "switch-remote",
                                                 !.err = "Remote does not exist"]
                       /\ [t EXCEPT !.last = NoOut] = Cur
                /\ arg = NoRemote => t = do_switch_remote(Cur, 0, ub)

\* switch-remote has just moved a Connection that was not last to the end of
\* a list of Connections only
C20_Witness ==
    /\ run = "running" /\ last.op = "switch-remote" /\ last.err = ""
    /\ Len(remotes) >= 2
    /\ \A i \in 1 .. Len(remotes) : IsRemote(Cur, remotes[i])
    /\ current = Last(remotes)
    /\ remotes[Len(remotes)] < remotes[1]

\* the handles a handler has newly mapped
Allocated(t) == {h \in Handles : t.vars[h] # vars[h] /\ t.vars[h] \notin {"none", "freed"}}

C22_ConnectionDestroyed ==
    run = "running" =>
        \A h \in Handles : IsRemote(Cur, h) =>
            \A w \in StaleAny, ub \in UB :
                LET t == do_disconnect(Cur, h, w, ub)
                IN  /\ t.run = "running" /\ ~t.last.ub
                    /\ \A g \in 1 .. Len(gl) : gl[g].rd = h => ~LiveGlobal(t, g)
                    /\ \A i \in 1 .. Len(t.rds[h].globals) :
                           t.rds[h].globals[i] = NoGlobal
                    /\ \A p \in 1 .. Len(px) : px[p].rd = h => ~LiveProxy(t, p)
                    /\ \A g \in 1 .. Len(gl) : ~LiveGlobal(Cur, g) => t.gl[g] = gl[g]
                    /\ h \notin Members(t.remotes)
                    /\ vars_lookup(t, h) = NoRemote
                    /\ t.current # h

\* C23: a step that ends the run is the end of the input or an error event
\* about the core object, id 0, of the current connection: no command, failed
\* or successful, and no error event of another connection ends it
C23_RunEndsOnlyOnEofOrFatalError ==
    [][(run = "running" /\ run' # "running") =>
          \/ last'.op = "eof"
          \/ last'.op = "error" /\ last'.on = current /\ run' = "quit"]_vs

C25_UsageBeforeAnything ==
    run = "running" =>
        \A c \in command_list, ub \in UB :
            \A cmd \in {c.name, c.alias} :
                LET t == parse(Cur, cmd, ub)
                IN  /\ t.last = [NoOut EXCEPT !.op = c.name, !.err = "usage",
                                              !.cmd = cmd]
                    /\ [t EXCEPT !.last = NoOut] = Cur

\* a command typed by its alias has just failed with the usage error while
\* the registry of the current connection holds a Global
C25_Witness ==
    /\ run = "running" /\ last.err = "usage"
    /\ \E c \in command_list : last.cmd = c.alias /\ last.op = c.name
    /\ IsRemote(Cur, current)
    /\ \E g \in 1 .. Len(gl) : LiveGlobal(Cur, g) /\ gl[g].rd = current

\* C26: right after a successful create-node the created proxy is stored under
\* a handle N of the Variable table, the number printed after "@proxy:" is the
\* id the service gives the created object, whichever it gives, and `info N`
\* renders the created node at once
C26_CreateNodeThenInfo ==
    (run = "running" /\ last.op = "create-node" /\ last.err = "" /\ ~last.ub) =>
        LET N == NextVar(Cur) - 1
            p == Len(px)
        IN  /\ vars[N] = "proxy"
            /\ \A id \in Ids : event_info(Cur, p, id, 0).px[p].oid = last.shown
            /\ \A ub \in UB :
                   LET t == do_info(Cur, N, ub)
                   IN  t.last.err = "" /\ t.last.render = p

\* the connection that is current once a line has been processed
LineLeavesCurrent ==
    /\ nlines' = nlines + 1
    /\ run' = "running"
    /\ IsRemote([vars |-> vars', rds |-> rds'], current')

C28_DestroyedWhileAwaiting ==
    [][/\ (last'.op = "done" /\ last'.prompt # NoRemote) =>
              IsRemote(Cur, last'.prompt)
       /\ \A c \in Handles :
              (IsRemote(Cur, c) /\ rds[c].inflight # <<>> /\ vars'[c] = "freed") =>
                  /\ last'.prompt = NoRemote
                  /\ IF Survivor(remotes', vars') = NoRemote
                     THEN run' = "quit"
                     ELSE /\ run' = "running"
                          /\ IsRemote([vars |-> vars', rds |-> rds'], current')
                          /\ current = c => current' = Survivor(remotes', vars')
                          /\ rds'[current'].seq = rds[current'].seq + 1
                          /\ rds'[current'].prompt_pending = rds'[current'].seq
                          /\ Last(rds'[current'].inflight) = rds'[current'].seq]_vs

\* C29: in every state, the proxy a Global references is live and refers back
\* to that Global, and a live proxy that refers back to a live Global is the
\* proxy that Global references, ad-hoc proxies included
C29_LinkedBothWays ==
    /\ \A g \in 1 .. Len(gl) :
           (LiveGlobal(Cur, g) /\ gl[g].proxy # NoProxy) =>
               LiveProxy(Cur, gl[g].proxy) /\ px[gl[g].proxy].global = g
    /\ \A p \in 1 .. Len(px) :
           (px[p].live /\ LiveGlobal(Cur, px[p].global)) =>
               gl[px[p].global].proxy = p

\* C30: an update merged into a session snapshot replaces the properties when
\* its change mask holds the session kind's properties bit, and the parameter
\* list with its count when it holds the session kind's parameters bit
C30_SessionMergeByOwnBits ==
    [][(kind = "Session" /\ mrg'.op \in {"info", "again"}) =>
          /\ PW_SESSION_CHANGE_MASK_PROPS \in mrg'.update.change_mask =>
                 snap'.props = mrg'.update.props
          /\ PW_SESSION_CHANGE_MASK_PARAMS \in mrg'.update.change_mask =>
                 /\ snap'.n_params = mrg'.update.n_params
                 /\ snap'.params = mrg'.update.params]_vs

\* C31: the id and the fields copied once of an endpoint or endpoint-stream
\* snapshot are those of the update that created the snapshot; an update
\* merged into an existing snapshot leaves them, whatever its mask and values
C31_IdentityFromFirstUpdate ==
    [][(kind \in {"Endpoint", "EndpointStream"} /\ mrg'.op \in {"info", "again"}) =>
          IF snap.set
          THEN snap'.id = snap.id /\ snap'.fixed = snap.fixed
          ELSE snap'.id = mrg'.update.id /\ snap'.fixed = mrg'.update.fixed]_vs

\* an update naming every group and carrying another id and other names has
\* just been merged into an endpoint snapshot, which kept its own
C31_Witness ==
    /\ kind = "Endpoint" /\ mrg.op = "info" /\ snap.set
    /\ mrg.update.change_mask = KindBits("Endpoint")
    /\ mrg.update.id # snap.id /\ mrg.update.fixed # snap.fixed
    /\ snap.props = mrg.update.props

\* C32: on a live current connection whose bound Globals all hold live
\* proxies, info <id> and info all do not go wrong on a snapshot that is not
\* there, and the proxy whose snapshot they render holds one: so too for a
\* Global bound at discovery whose first info event has not arrived
C32_RenderedSnapshotExists ==
    \A arg \in Ids \cup {All}, ub \in UB :
        ( /\ run = "running" /\ IsRemote(Cur, current)
          /\ \A g \in CurrentGlobals :
                 gl[g].proxy # NoProxy => LiveProxy(Cur, gl[g].proxy) )
        => LET t == do_info(Cur, arg, ub)
           IN  /\ t.run # "crashed"
               /\ t.last.render # NoProxy =>
                      LiveProxy(t, t.last.render) /\ t.px[t.last.render].info

\* the handler left the state t without touching a connection that is not there
Sound(t) == t.run # "crashed" /\ ~t.last.ub

\* C33: in every state in which a line can be read, the startup connect
\* having failed or not, each handler that works on the current connection
\* meets a live Connection in current: list-objects, info, create-device,
\* create-node, create-link, destroy, enum-params, permissions,
\* get-permissions, export-node and disconnect without an argument do not
\* go through a current that is no Connection
C33_HandlersMeetLiveCurrent ==
    \A ub \in UB, id \in Ids :
        (run = "running" /\ ~IsRemote(Cur, current)) =>
            /\ Sound(do_list_objects(Cur, "", ub))
            /\ Sound(do_info(Cur, id, ub))
            /\ Sound(do_create_device(Cur, 0, ub))
            /\ Sound(do_create_node(Cur, 0, ub))
            /\ Sound(do_create_link(Cur, 0, ub))
            /\ Sound(do_destroy(Cur, id, ub))
            /\ Sound(do_enum_params(Cur, id, ub))
            /\ Sound(do_permissions(Cur, id, ub))
            /\ Sound(do_get_permissions(Cur, id, ub))
            /\ Sound(do_export_node(Cur, 0, "none", NoRemote, ub))
            /\ Sound(do_disconnect(Cur, NoRemote, 0, ub))

\* the connections on which the recorded barrier is outstanding after a step:
\* each of them gets a prompt when that barrier completes
Prompting ==
    {h \in Handles :
        /\ IsRemote([vars |-> vars', rds |-> rds'], h)
        /\ \E i \in 1 .. Len(rds'[h].inflight) :
               rds'[h].inflight[i] = rds'[h].prompt_pending}

\* C34: with several connections, however connect and switch-remote
\* interleave with the completions of pending barriers, a prompt is shown
\* only for the connection that is current when it is shown, and the
\* barriers outstanding at any time bring at most one prompt, so that no
\* line is followed by two
C34_PromptOnlyForCurrent ==
    [][/\ (last'.op = "done" /\ last'.prompt # NoRemote) =>
              last'.prompt = current'
       /\ Cardinality(Prompting) <= 1]_vs

\* the slot of a default key
Slot(key) == CHOOSE i \in 1 .. Len(NoDefaults) : NoDefaults[i].key = key

\* C35: a metadata property event of the core subject with the NULL key
\* resets every default slot to the invalid id, and when a slot held a valid
\* id it clears the saved properties and schedules a save; one with a default
\* key touches only the slot of that key and schedules a save exactly when
\* that slot's value changed; an event of another subject or another key
\* changes nothing
C35_MetadataPropertyUpdatesSlots ==
    \A subject \in {PW_ID_CORE, 1}, key \in DefaultKeys \cup {OtherKey, NoKey}, value \in Values :
        impl.live =>
        LET s == Fresh("property")
            t == metadata_property(s, subject, key, value)
            n == Len(NoDefaults)
        IN  /\ (subject = PW_ID_CORE /\ key = NoKey) =>
                   /\ \A i \in 1 .. n : t.impl.defaults[i].value = SPA_ID_INVALID
                   /\ (\E i \in 1 .. n : s.impl.defaults[i].value # SPA_ID_INVALID)
                      => /\ t.impl.properties = NoProps
                         /\ t.session.armed /\ t.impl.idle_timeout
            /\ (subject = PW_ID_CORE /\ key \in DefaultKeys) =>
                   /\ \A i \in 1 .. n :
                          i # Slot(key) => t.impl.defaults[i] = s.impl.defaults[i]
                   /\ t.session.armed <=>
                          t.impl.defaults[Slot(key)].value
                              # s.impl.defaults[Slot(key)].value
            /\ (subject # PW_ID_CORE \/ key \notin DefaultKeys \cup {NoKey}) =>
                   t = s

\* the saved properties differ from what the state file holds
Unsaved == impl.live /\ impl.properties # session.state

C37_RemoveResetsSlotsOnly ==
    \A id \in ObjIds :
        (impl.live /\ session.objects[id] # NoObject) =>
        LET s == Fresh("remove")
            t == session_remove(s, id)
            n == Len(NoDefaults)
        IN  IF s.session.objects[id].type = "Node"
            THEN /\ \A i \in 1 .. n :
                        /\ t.impl.defaults[i].value # id
                        /\ IF s.impl.defaults[i].value = id
                           THEN /\ t.impl.defaults[i].value = SPA_ID_INVALID
                                /\ t.session.metadata[NoDefaults[i].key] = NULL
                           ELSE /\ t.impl.defaults[i] = s.impl.defaults[i]
                                /\ t.session.metadata[NoDefaults[i].key]
                                       = s.session.metadata[NoDefaults[i].key]
                 /\ t.session.nset =
                        Cardinality({i \in 1 .. n : s.impl.defaults[i].value = id})
                 /\ t.impl.properties = s.impl.properties
                 /\ ~t.session.armed
                 /\ t.impl.idle_timeout = s.impl.idle_timeout
            ELSE t = s

\* a Node that two default slots named was removed: both keys were cleared
\* and the entries saved for them are still there
C37_Witness ==
    /\ session.op = "remove" /\ session.nset = 2
    /\ \E i, j \in 1 .. Len(NoDefaults) :
           /\ i # j
           /\ impl.defaults[i].value = SPA_ID_INVALID
           /\ impl.defaults[j].value = SPA_ID_INVALID
           /\ impl.properties[NoDefaults[i].key] = setf_name(<<"a">>)
           /\ impl.properties[NoDefaults[j].key] = setf_name(<<"a">>)
           /\ session.metadata[NoDefaults[i].key] = NULL
           /\ session.metadata[NoDefaults[j].key] = NULL

\* the state after the session lists object at id and emits create for it
Created(s, id, object) ==
    session_create([s EXCEPT !.session.objects[id] = object], id)

\* the state after the session emits remove for the object at id and drops it
Removed(s, id) ==
    [session_remove(s, id) EXCEPT !.session.objects[id] = NoObject]

\* C38: when a default key is set to the id of a Node named n and that Node
\* is removed, the creation of a Node named n under any free id sets the
\* metadata property of that key to the new id; the creation of an object
\* that is no Node, or of a Node whose name no saved entry of a default key
\* names, sets no metadata property
C38_RestoreRoundTrip ==
    impl.live =>
    LET s == Fresh("create")
    IN  /\ \A key \in DefaultKeys, x \in ObjIds, y \in ObjIds :
               ( /\ s.session.objects[x].type = "Node"
                 /\ y = x \/ s.session.objects[y] = NoObject )
               => LET n  == s.session.objects[x].name
                      s1 == metadata_set(s, PW_ID_CORE, key, snprintf_u(x))
                      s2 == Removed(s1, x)
                      s3 == Created(s2, y, [type |-> "Node", name |-> n])
                  IN  s3.session.metadata[key] = snprintf_u(y)
        /\ \A y \in ObjIds, object \in Objects :
               ( /\ s.session.objects[y] = NoObject
                 /\ \/ object.type # "Node"
                    \/ \A key \in DefaultKeys :
                          s.impl.properties[key] # setf_name(object.name) )
               => Created(s, y, object).session.nset = 0

====
